---------------------------- MODULE Spec2Model ----------------------------
(***************************************************************************)
(* TVDI algorithm (computeTVDI: handleInputs, singleTVDI, collectionTVDI). *)
(*                                                                         *)
(* A raster is a function over a finite grid of cells.  Cell p stands for  *)
(* Weight(p) raster pixels that carry the same NDVI and the same LST, so   *)
(* that an interval can hold more than 50 pixels with a handful of cells.  *)
(* NDVI is held in fixed point, IntervalWidth units per 0.01, and LST in   *)
(* fixed point, LstScale units per degree.  The fitted parameters and the  *)
(* TVDI values are exact rationals; where the code's double arithmetic     *)
(* decides the outcome, at a denominator that is zero in exact arithmetic, *)
(* the sign of its rounding error is a choice fixed per scene.             *)
(***************************************************************************)
EXTENDS Integers, Sequences, FiniteSets

\* ------------------------------------------------------------------ bounds
\* Number of grid cells.
NPix == 4
\* Pixels in a large block of equal pixels (even cells); odd cells are 1 pixel.
BlockSize == 60
\* Longest image collection drawn.
MaxLen == 4
\* Longest image collection drawn from the scenes with a zero denominator.
MaxRoundingLen == 2

\* ------------------------------------------------------- program constants
\* ee.List.sequence(0,99): the 100 NDVI intervals.
NumIntervals == 100
\* multiply(0.01): one interval is 0.01 NDVI wide, IntervalWidth fixed-point units.
IntervalWidth == 4
\* gte(0.02) and gte(0.98), in percent.
WetPercent == 2
DryPercent == 98

\* LST fixed-point units per degree: 10*NDVI is then a whole number of units.
LstScale == 10 * IntervalWidth

Cells == 1..NPix
Weight(p) == IF p % 2 = 1 THEN 1 ELSE BlockSize

\* ------------------------------------------------------------- arithmetic
RECURSIVE SumF(_, _)
SumF(f, S) ==
  IF S = {} THEN 0
  ELSE LET p == CHOOSE q \in S : TRUE IN f[p] + SumF(f, S \ {p})

Abs(x) == IF x < 0 THEN -x ELSE x

RECURSIVE GCD(_, _)
GCD(x, y) == IF y = 0 THEN x ELSE GCD(y, x % y)

\* The rational n/d (d # 0) in lowest terms with a positive denominator.
Rat(n, d) ==
  LET g == GCD(Abs(n), Abs(d))
      s == IF d < 0 THEN -1 ELSE 1
  IN  [num |-> s * (n \div g), den |-> s * (d \div g)]

Zero == [num |-> 0, den |-> 1]
One == [num |-> 1, den |-> 1]
\* Comparisons and sums go through the common denominator, products are
\* cancelled crosswise first: the numbers stay small.
RatLess(x, y) ==
  LET g == GCD(x.den, y.den) IN x.num * (y.den \div g) < y.num * (x.den \div g)
RatLeq(x, y) ==
  LET g == GCD(x.den, y.den) IN x.num * (y.den \div g) <= y.num * (x.den \div g)

\* --------------------------------------------- histogram keys (text keys)
\* ee.Reducer.frequencyHistogram returns a dictionary keyed by the decimal
\* text of each value; ee.Dictionary orders its keys as text.
RECURSIVE Digits(_)
Digits(n) == IF n < 10 THEN <<n>> ELSE Append(Digits(n \div 10), n % 10)

RECURSIVE FromDigits(_)
FromDigits(ds) ==
  IF Len(ds) = 0 THEN 0
  ELSE 10 * FromDigits(SubSeq(ds, 1, Len(ds) - 1)) + ds[Len(ds)]

\* The key of LST value v: the digits of its integer part, then its fraction.
KeyOf(v) == [int |-> Digits(v \div LstScale), frac |-> v % LstScale]

\* ee.Number.parse of a key.
ParseKey(k) == FromDigits(k.int) * LstScale + k.frac

RECURSIVE DigitsLess(_, _)
DigitsLess(s, t) ==
  IF Len(s) = 0 THEN Len(t) > 0
  ELSE IF Len(t) = 0 THEN FALSE
  ELSE IF s[1] # t[1] THEN s[1] < t[1]
  ELSE DigitsLess(Tail(s), Tail(t))

\* Text order of two keys: the integer parts compare as digit strings (a
\* prefix first: "." and the end of text sort before every digit); equal
\* integer parts leave the fractions, which compare as numbers.
KeyLess(j, k) ==
  IF j.int = k.int THEN j.frac < k.frac ELSE DigitsLess(j.int, k.int)

\* Dictionary.keys(): the keys in the dictionary's order.
RECURSIVE SortedKeys(_)
SortedKeys(K) ==
  IF K = {} THEN << >>
  ELSE LET m == CHOOSE k \in K : \A o \in K \ {k} : KeyLess(k, o)
       IN  <<m>> \o SortedKeys(K \ {m})

\* ------------------------------------------------------ rational numbers
RatAdd(x, y) ==
  LET g == GCD(x.den, y.den)
  IN  Rat(x.num * (y.den \div g) + y.num * (x.den \div g), (x.den \div g) * y.den)
RatSub(x, y) ==
  LET g == GCD(x.den, y.den)
  IN  Rat(x.num * (y.den \div g) - y.num * (x.den \div g), (x.den \div g) * y.den)
RatMul(x, y) ==
  LET g == GCD(Abs(x.num), y.den)
      h == GCD(Abs(y.num), x.den)
  IN  Rat((x.num \div g) * (y.num \div h), (x.den \div h) * (y.den \div g))
\* Image division: "returning 0 for division by 0".
RatDiv(x, y) ==
  IF y.num = 0 THEN Zero
  ELSE RatMul(x, [num |-> IF y.num < 0 THEN -y.den ELSE y.den, den |-> Abs(y.num)])
RatOfInt(n) == [num |-> n, den |-> 1]

\* A reducer's result: a number, or null when no pixel took part.
NoData == [def |-> FALSE, val |-> Zero]
Num(r) == [def |-> TRUE, val |-> r]

\* ----------------------------------------------------------- the pipeline
W == [p \in Cells |-> Weight(p)]

\* An interval mask that takes in both of its boundaries.
MaskIntervalNDVIClosed(ndvi, i) ==
  {p \in Cells : ndvi[p] >= i * IntervalWidth /\ ndvi[p] <= (i + 1) * IntervalWidth}

\* How the NDVI image holds a value: "scaled", the double raw*0.0001 of the
\* integer band (the collections of the example, multiply(0.0001)), or
\* "literal", the double nearest to the decimal.
VARIABLE held

\* The bounds are the doubles k*0.01 (ee.Number(i).multiply(0.01) and
\* ee.Number(i).add(1).multiply(0.01), the same double for the same k).  A
\* pixel whose NDVI is the decimal k*0.01 is held as a double that is equal to
\* the bound, or next to it: above it for these k when scaled,
ScaledAbove ==
  {3, 6, 9, 12, 18, 21, 24, 29, 36, 42, 48, 49, 58, 59, 71, 72, 84, 85, 96, 97,
   98, 99}
\* and below it for these k when a literal.
LiteralBelow == {35, 41, 47, 57, 69, 70, 82, 83, 94, 95}

\* imageNDVI.gt(k*0.01) and imageNDVI.lt(k*0.01) at a pixel of NDVI v: every
\* other value compares as its decimal does.
GtBound(v, k) ==
  \/ v > k * IntervalWidth
  \/ v = k * IntervalWidth /\ held = "scaled" /\ k \in ScaledAbove
LtBound(v, k) ==
  \/ v < k * IntervalWidth
  \/ v = k * IntervalWidth /\ held = "literal" /\ k \in LiteralBelow

\* The pixel's double and the bound k*0.01 are the same double.
EqBound(v, k) == ~GtBound(v, k) /\ ~LtBound(v, k)

\* An interval mask that takes in the pixels equal to its lower bound.
MaskIntervalNDVIHalfOpen(ndvi, i) ==
  {p \in Cells : ~LtBound(ndvi[p], i) /\ LtBound(ndvi[p], i + 1)}

\* imageNDVI.gt(minNDVI).and(imageNDVI.lt(maxNDVI)).selfMask(): the cells of
\* interval i; imageLST.updateMask(...) keeps the LST of exactly these cells.
MaskIntervalNDVI(ndvi, i) ==
  {p \in Cells : GtBound(ndvi[p], i) /\ LtBound(ndvi[p], i + 1)}

\* reduceRegion(ee.Reducer.countDistinct()) of an interval's LST over the ROI.
CountDistinct(lst, M, roi) == Cardinality({lst[p] : p \in M \cap roi})

\* A test that keeps every interval with a pixel in the ROI.
KeepIntervalNonEmpty(lst, M, roi) == CountDistinct(lst, M, roi) >= 1

\* ee.Algorithms.If(countDistinctNumber.gt(1), LSTOnInterval, null)
KeepInterval(lst, M, roi) == CountDistinct(lst, M, roi) > 1

\* ee.List.sequence(0,99).map(..., dropNulls): the retained interval fields,
\* in interval order, each held as the set of its valid cells.
RECURSIVE Ascending(_)
Ascending(I) ==
  IF I = {} THEN << >>
  ELSE LET m == CHOOSE i \in I : \A h \in I : i <= h
       IN  <<m>> \o Ascending(I \ {m})

LSTValuesOnNDVIIntervals(ndvi, lst, roi) ==
  LET kept == {i \in 0..(NumIntervals - 1) :
                 KeepInterval(lst, MaskIntervalNDVI(ndvi, i), roi)}
      order == Ascending(kept)
  IN  [j \in 1..Len(order) |-> MaskIntervalNDVI(ndvi, order[j])]

\* reduceRegion(ee.Reducer.frequencyHistogram()): key -> number of pixels.
HistogramKeys(lst, M, roi) == {KeyOf(lst[p]) : p \in M \cap roi}
HistogramCount(lst, M, roi, k) ==
  SumF(W, {p \in M \cap roi : KeyOf(lst[p]) = k})

\* histogramDict.toArray().accum(0): running totals in key order.
RECURSIVE Accum(_, _, _, _, _)
Accum(lst, M, roi, keys, j) ==
  IF j = 0 THEN 0
  ELSE Accum(lst, M, roi, keys, j - 1) + HistogramCount(lst, M, roi, keys[j])

\* accumulated.divide(last).gte(pct/100).toList().indexOf(1), from 1.
IndexGTE(lst, M, roi, keys, pct) ==
  LET total == Accum(lst, M, roi, keys, Len(keys))
  IN  CHOOSE j \in 1..Len(keys) :
        /\ 100 * Accum(lst, M, roi, keys, j) >= pct * total
        /\ \A h \in 1..(j - 1) : 100 * Accum(lst, M, roi, keys, h) < pct * total

LSTValueGTE(lst, M, roi, pct) ==
  LET keys == SortedKeys(HistogramKeys(lst, M, roi))
  IN  ParseKey(keys[IndexGTE(lst, M, roi, keys, pct)])

\* LSTOnInterval.lt(LSTValueGTE02).selfMask()
WetEdgePixels(lst, M, roi) ==
  {p \in M : lst[p] < LSTValueGTE(lst, M, roi, WetPercent)}
\* LSTOnInterval.gte(LSTValueGTE98).selfMask()
DryEdgePixels(lst, M, roi) ==
  {p \in M : lst[p] >= LSTValueGTE(lst, M, roi, DryPercent)}

\* ee.List([wetEdgePixels, dryEdgePixels])
EdgesOf(lst, M, roi) ==
  [wet |-> WetEdgePixels(lst, M, roi), dry |-> DryEdgePixels(lst, M, roi)]

\* ee.ImageCollection(...).mosaic(): a cell is in the mosaic when some mask
\* of the list marks it.
MosaicWet(es) == UNION {es[j].wet : j \in DOMAIN es}
MosaicDry(es) == UNION {es[j].dry : j \in DOMAIN es}

\* ee.Reducer.linearFit() of the samples (x[p], y[p]), p in S, each counted
\* W[p] times: least squares, and no result without two distinct x.  The sums
\* are taken about the smallest sample, which leaves the fit unchanged.
LeastSquares(x, y, S) ==
  LET x0  == CHOOSE v \in {x[p] : p \in S} : \A u \in {x[p] : p \in S} : v <= u
      y0  == CHOOSE v \in {y[p] : p \in S} : \A u \in {y[p] : p \in S} : v <= u
      n   == SumF(W, S)
      Sx  == SumF([p \in Cells |-> W[p] * (x[p] - x0)], S)
      Sy  == SumF([p \in Cells |-> W[p] * (y[p] - y0)], S)
      Sxx == SumF([p \in Cells |-> W[p] * (x[p] - x0) * (x[p] - x0)], S)
      Sxy == SumF([p \in Cells |-> W[p] * (x[p] - x0) * (y[p] - y0)], S)
      D   == n * Sxx - Sx * Sx
      b   == Rat(n * Sxy - Sx * Sy, D)
      a   == RatSub(RatAdd(RatOfInt(y0), Rat(Sy * Sxx - Sx * Sxy, D)),
                    RatMul(b, RatOfInt(x0)))
  IN  IF S = {} THEN [offset |-> NoData, scale |-> NoData]
      ELSE IF D = 0 THEN [offset |-> NoData, scale |-> NoData]
      ELSE [offset |-> Num(a), scale |-> Num(b)]

\* The fit with the bands swapped: LST as b1 and NDVI as b2.
LinearFitSwapped(ndvi, lst, dry, roi) == LeastSquares(lst, ndvi, dry \cap roi)

\* dryEdgeNDVI.rename('b1').addBands(dryEdgeLST.rename('b2')) reduced over the
\* ROI: NDVI is the independent and LST the dependent variable.
LinearFit(ndvi, lst, dry, roi) == LeastSquares(ndvi, lst, dry \cap roi)

\* reduceRegion(ee.Reducer.mean()) of LST over the wet-edge cells of the ROI.
WetEdgeLSTMean(lst, wet, roi) ==
  LET S == wet \cap roi
  IN  IF S = {} THEN NoData
      ELSE Num(Rat(SumF([p \in Cells |-> W[p] * lst[p]], S), SumF(W, S)))

\* The signs the denominator can have in double arithmetic where its exact
\* value is zero: the rounding error of a + b*NDVI - LSTmin.
RoundingSigns == {-1, 0, 1}

\* '(LST - LSTmin) / (a + b*NDVI - LSTmin)' at one cell.  The code evaluates it
\* in doubles: where the exact denominator is zero and the numerator is not,
\* the double denominator is a rounding error of sign r, and the quotient is
\* 0 (r = 0, division by 0) or lies far beyond [0,1] on the side of its sign.
\* A zero numerator gives 0 whatever the denominator.
Expression(l, n, a, b, lmin, r) ==
  LET num == RatSub(RatOfInt(l), lmin)
      den == RatSub(RatAdd(a, RatMul(b, RatOfInt(n))), lmin)
  IN  IF den.num # 0 \/ num.num = 0 \/ r = 0 THEN RatDiv(num, den)
      ELSE IF (num.num > 0) = (r > 0) THEN RatOfInt(1000000000)
      ELSE RatOfInt(-1000000000)

\* The expression meets a denominator that is zero in exact arithmetic under
\* a numerator that is not, at a cell of the ROI.
MeetsRounding(ndvi, lst, roi, f, lmin) ==
  /\ f.offset.def /\ f.scale.def /\ lmin.def
  /\ \E p \in roi :
       /\ RatSub(RatAdd(f.offset.val, RatMul(f.scale.val, RatOfInt(ndvi[p]))),
                 lmin.val).num = 0
       /\ RatSub(RatOfInt(lst[p]), lmin.val).num # 0

\* A clamp that forgets the upper end.
ClampBelow(x) == IF RatLess(x, Zero) THEN Zero ELSE x

\* clamp(0,1)
Clamp(x) == IF RatLess(x, Zero) THEN Zero ELSE IF RatLess(One, x) THEN One ELSE x

\* ------------------------------------------------------------------ values
\* An argument of a call: a value, JavaScript null, or absent (undefined).
Value(v) == [tag |-> "value", v |-> v]
Null(v) == [tag |-> "null", v |-> v]
Undefined(v) == [tag |-> "undefined", v |-> v]

\* The image a computation yields when Earth Engine evaluates it: a field
\* (valid cells and their values), or an evaluation error and no field.
EvalError == [status |-> "evalError", valid |-> {}, val |-> [p \in Cells |-> Zero]]
Field(valid, val) ==
  [status |-> "ok", valid |-> valid,
   val |-> [p \in Cells |-> IF p \in valid THEN val[p] ELSE Zero]]

NoImage == [status |-> "none", valid |-> {}, val |-> [p \in Cells |-> Zero]]
NoFit == [offset |-> NoData, scale |-> NoData]

\* ------------------------------------------------------------ handleInputs
NullMessages(NDVI, LST, ROI, SCALE_M_PX, isCollection) ==
  (IF NDVI.tag = "null"
     THEN IF isCollection THEN <<"ERROR: imageCollectionNDVI must not be null!">>
                          ELSE <<"ERROR: imageNDVI must not be null!">>
     ELSE << >>)
  \o (IF LST.tag = "null"
        THEN IF isCollection THEN <<"ERROR: imageCollectionLST must not be null!">>
                             ELSE <<"ERROR: imageLST must not be null!">>
        ELSE << >>)
  \o (IF ROI.tag = "null" THEN <<"ERROR: ROI must not be null!">> ELSE << >>)
  \o (IF SCALE_M_PX.tag = "null" THEN <<"ERROR: SCALE_M_PX must not be null!">> ELSE << >>)

\* A size test that sees only a longer NDVI collection.
SizeIsLonger(NDVI, LST) == Len(NDVI.v) > Len(LST.v)

\* (NDVI.size()).neq(LST.size())
SizeIsDifferent(NDVI, LST) == Len(NDVI.v) # Len(LST.v)

\* The result is the error text, or false; the size test calls .size() on its
\* operands, which throws when one of them is undefined.
handleInputs(NDVI, LST, ROI, SCALE_M_PX, isCollection) ==
  LET error == NullMessages(NDVI, LST, ROI, SCALE_M_PX, isCollection)
      sizeTest == isCollection /\ NDVI.tag # "null" /\ LST.tag # "null"
  IN  IF sizeTest /\ (NDVI.tag = "undefined" \/ LST.tag = "undefined")
        THEN [kind |-> "throw", text |-> << >>]
      ELSE IF sizeTest /\ SizeIsDifferent(NDVI, LST)
        THEN [kind |-> "string",
              text |-> <<"ERROR: NDVI and LST collections don't have the same size!">>]
      ELSE IF error # << >> THEN [kind |-> "string", text |-> error]
      ELSE [kind |-> "false", text |-> << >>]

\* ------------------------------------------------------------------- state
VARIABLES
  mode,        \* "single": a singleTVDI call; "collection": a collectionTVDI call
  argNDVI, argLST, argROI, argSCALE, argDEBUG,     \* the call's arguments
  pc,          \* position in the code
  idx,         \* collectionTVDI: the index i of the pair being mapped
  intervals,   \* LSTValuesOnNDVIIntervals
  edges,       \* edgesPixelsMasks, for the intervals classified so far
  wetMask, dryMask,     \* wetEdgePixelsMask, dryEdgePixelsMask
  fit,         \* linearFit: offset a and scale b
  lstMin,      \* wetEdgeLSTMean
  imageTVDI,   \* imageTVDI
  results,     \* resultsTVDI
  retval,      \* what the call returned
  printed,     \* what print() was given
  rounding     \* the rounding of the double arithmetic, per scene met so far

vars == <<mode, argNDVI, argLST, argROI, argSCALE, argDEBUG, pc, idx, intervals,
          edges, wetMask, dryMask, fit, lstMin, imageTVDI, results, retval, printed,
          rounding, held>>

args == <<mode, argNDVI, argLST, argROI, argSCALE, argDEBUG, held>>
locals == <<intervals, edges, wetMask, dryMask, fit, lstMin, imageTVDI>>

\* The arguments singleTVDI is running on: the call's own, or inside
\* collectionTVDI's map ee.Image(IClistNDVI.get(i)), ee.Image(IClistLST.get(i)).
curNDVI == IF mode = "single" THEN argNDVI ELSE Value(argNDVI.v[idx + 1])
curLST == IF mode = "single" THEN argLST ELSE Value(argLST.v[idx + 1])
\* singleTVDI(NDVI, LST, ROI, SCALE_M_PX, false) inside the map.
curDEBUG == IF mode = "single" THEN argDEBUG ELSE Value(FALSE)

\* An absent argument passes handleInputs; Earth Engine then fails on it.
AllPresent ==
  /\ curNDVI.tag = "value" /\ curLST.tag = "value"
  /\ argROI.tag = "value" /\ argSCALE.tag = "value"

NoReturn == [kind |-> "none", text |-> << >>, image |-> NoImage, items |-> << >>]
\* return error
ReturnError(text) == [kind |-> "error", text |-> text, image |-> NoImage, items |-> << >>]
\* A return that sits in the else branch of the debug print.
ReturnImageUnlessDebug(img) ==
  IF argDEBUG.tag = "value" /\ argDEBUG.v
    THEN [kind |-> "none", text |-> << >>, image |-> NoImage, items |-> << >>]
    ELSE [kind |-> "image", text |-> << >>, image |-> img, items |-> << >>]

\* return imageTVDI
ReturnImage(img) == [kind |-> "image", text |-> << >>, image |-> img, items |-> << >>]
\* An exception leaves the call: nothing is returned.
ReturnThrow == [kind |-> "exception", text |-> << >>, image |-> NoImage, items |-> << >>]

\* ee.ImageCollection(resultsTVDI): the mapped list is evaluated as a whole, so
\* an element whose evaluation fails fails the collection ("Error in map").
ImageCollection(rs) ==
  IF \E j \in DOMAIN rs : rs[j].image.status = "evalError"
    THEN [kind |-> "collection", text |-> << >>, image |-> EvalError, items |-> << >>]
    ELSE [kind |-> "collection", text |-> << >>, image |-> NoImage, items |-> rs]

\* Double arithmetic is a function of its operands: the sign of the rounding
\* error on a scene, once met, is the same whenever the scene is evaluated
\* again.
RoundingOf(ndvi, lst) ==
  IF \E m \in rounding : m.ndvi = ndvi /\ m.lst = lst
    THEN (CHOOSE m \in rounding : m.ndvi = ndvi /\ m.lst = lst).sign
    ELSE 0

\* imageLST.expression(...).rename("TVDI").clip(ROI).clamp(0,1): a null
\* parameter fails the evaluation; otherwise the cells of the ROI hold the
\* clamped quotient.
TVDIField(ndvi, lst, roi, f, lmin, r) ==
  IF f.offset.def /\ f.scale.def /\ lmin.def
    THEN Field(roi, [p \in Cells |->
                 Clamp(Expression(lst[p], ndvi[p], f.offset.val, f.scale.val, lmin.val, r))])
    ELSE EvalError

\* ------------------------------------------------------------------ inputs
\* var SCALE_M_PX = 1000
ScaleMPx == 1000

\* NDVI values: one inside interval 0, the boundary between intervals 0 and
\* 1, and one inside interval 1.
NdviVals == {1, IntervalWidth, IntervalWidth + 1}
\* LST values: 9, 10 and 11 degrees (their keys are "9", "10" and "11").
LstVals == {9 * LstScale, 10 * LstScale, 11 * LstScale}
\* Regions of interest: the whole grid, or all of it but the last cell.
Rois == {Cells, Cells \ {NPix}}

NdviImages == [Cells -> NdviVals]
LstImages == [Cells -> LstVals]
BlankImage == [p \in Cells |-> 0]

\* The scene of the affine test: LST = 300 + 10*NDVI at every cell.
AffineNdviVals == {1, 2, 3, IntervalWidth + 1}
AffineLST(ndvi) == [p \in Cells |-> 300 * LstScale + ndvi[p]]

\* NDVI values at and around the ends of the NDVI range: below 0, 0, inside
\* interval 0, inside interval 99, 1 and above 1.
OuterNdviVals ==
  {-1, 0, 1, NumIntervals * IntervalWidth - 1, NumIntervals * IntervalWidth,
   NumIntervals * IntervalWidth + 1}

\* Scenes on which a + b*NDVI - LSTmin is zero in exact arithmetic at a pixel
\* whose LST differs from LSTmin.  Cells beyond the fourth lie in no interval.
FourCells(q, d) == [p \in Cells |-> IF p <= Len(q) THEN q[p] ELSE d]
RoundingScenes ==
  {[ndvi |-> FourCells(<<6, 7, 7, 9>>, 0), lst |-> FourCells(<<480, 360, 400, 440>>, 400)],
   [ndvi |-> FourCells(<<3, 9, 2, 2>>, 0), lst |-> FourCells(<<520, 600, 400, 380>>, 400)],
   [ndvi |-> FourCells(<<1, 6, 2, 2>>, 0), lst |-> FourCells(<<560, 560, 420, 380>>, 400)]}

\* Scenes with NDVI on and next to the boundary 0.03, or on and next to the
\* boundary 0.35.
BoundaryNdviVals ==
  {{k * IntervalWidth - 1, k * IntervalWidth, k * IntervalWidth + 1} : k \in {3, 35}}
BoundaryLstImages ==
  {FourCells(<<360, 400, 440, 440>>, 400), FourCells(<<360, 400, 440, 400>>, 400)}

\* The images a collection is drawn from.
NdviCatalogue ==
  {[p \in Cells |-> ((p - 1) % (IntervalWidth - 1)) + 1], [p \in Cells |-> 1]}
LstCatalogue ==
  {[p \in Cells |-> 10 * LstScale],
   [p \in Cells |-> IF p = 1 THEN 10 * LstScale ELSE 11 * LstScale]}

SeqsUpTo(S, n) == UNION {[1..k -> S] : k \in 0..n}

InitLocals ==
  /\ idx = 0
  /\ intervals = << >> /\ edges = << >>
  /\ wetMask = {} /\ dryMask = {}
  /\ fit = NoFit /\ lstMin = NoData
  /\ imageTVDI = NoImage
  /\ results = << >>
  /\ retval = NoReturn
  /\ printed = << >>
  /\ rounding = {}

\* A singleTVDI call on a scene.
InitSingle ==
  /\ held = "scaled"
  /\ mode = "single" /\ pc = "single"
  /\ argNDVI \in {Value(f) : f \in NdviImages}
  /\ argLST \in {Value(f) : f \in LstImages}
  /\ argROI \in {Value(r) : r \in Rois}
  /\ argSCALE = Value(ScaleMPx)
  /\ argDEBUG = Value(FALSE)

\* A singleTVDI call in which each argument is given, null or absent.
InitSingleMissing ==
  /\ held = "scaled"
  /\ mode = "single" /\ pc = "single"
  /\ argNDVI \in {Value(f) : f \in NdviCatalogue} \cup {Null(BlankImage), Undefined(BlankImage)}
  /\ argLST \in {Value(f) : f \in LstCatalogue} \cup {Null(BlankImage), Undefined(BlankImage)}
  /\ argROI \in {Value(Cells), Null({}), Undefined({})}
  /\ argSCALE \in {Value(ScaleMPx), Null(0), Undefined(0)}
  /\ argDEBUG \in {Value(TRUE), Value(FALSE), Undefined(FALSE)}

\* A singleTVDI call on an affine scene, with the debug flag true, false or
\* omitted.
InitAffine ==
  /\ held = "scaled"
  /\ mode = "single" /\ pc = "single"
  /\ \E f \in [Cells -> AffineNdviVals] :
       /\ argNDVI = Value(f)
       /\ argLST = Value(AffineLST(f))
  /\ argROI \in {Value(r) : r \in Rois}
  /\ argSCALE = Value(ScaleMPx)
  /\ argDEBUG \in {Value(TRUE), Value(FALSE), Undefined(FALSE)}

\* A singleTVDI call on a scene with NDVI at and beyond the ends of its range.
InitOuter ==
  /\ held = "scaled"
  /\ mode = "single" /\ pc = "single"
  /\ argNDVI \in {Value(f) : f \in [Cells -> OuterNdviVals]}
  /\ argLST \in {Value(f) : f \in LstCatalogue}
  /\ argROI = Value(Cells)
  /\ argSCALE = Value(ScaleMPx)
  /\ argDEBUG = Value(FALSE)

\* A singleTVDI call on a scene with NDVI on interval boundaries, held
\* either way.
InitBoundary ==
  /\ held \in {"scaled", "literal"}
  /\ mode = "single" /\ pc = "single"
  /\ \E vals \in BoundaryNdviVals : argNDVI \in {Value(f) : f \in [Cells -> vals]}
  /\ argLST \in {Value(f) : f \in BoundaryLstImages}
  /\ argROI = Value(Cells)
  /\ argSCALE = Value(ScaleMPx)
  /\ argDEBUG = Value(FALSE)

\* A singleTVDI call on a scene with a zero denominator.
InitRounding ==
  /\ held = "scaled"
  /\ mode = "single" /\ pc = "single"
  /\ \E c \in RoundingScenes : argNDVI = Value(c.ndvi) /\ argLST = Value(c.lst)
  /\ argROI = Value(Cells)
  /\ argSCALE = Value(ScaleMPx)
  /\ argDEBUG \in {Value(TRUE), Value(FALSE)}

\* A collectionTVDI call on pairs drawn from the scenes with a zero
\* denominator.
InitRoundingCollection ==
  /\ held = "scaled"
  /\ mode = "collection" /\ pc = "collection"
  /\ \E q \in SeqsUpTo(RoundingScenes, MaxRoundingLen) :
       /\ argNDVI = Value([i \in DOMAIN q |-> q[i].ndvi])
       /\ argLST = Value([i \in DOMAIN q |-> q[i].lst])
  /\ argROI = Value(Cells)
  /\ argSCALE = Value(ScaleMPx)
  /\ argDEBUG = Undefined(FALSE)

\* A collectionTVDI call: two collections of up to MaxLen images, each given,
\* null or absent, as are the ROI and the scale.
InitCollection ==
  /\ held = "scaled"
  /\ mode = "collection" /\ pc = "collection"
  /\ argNDVI \in {Value(q) : q \in SeqsUpTo(NdviCatalogue, MaxLen)}
                  \cup {Null(<< >>), Undefined(<< >>)}
  /\ argLST \in {Value(q) : q \in SeqsUpTo(LstCatalogue, MaxLen)}
                 \cup {Null(<< >>), Undefined(<< >>)}
  /\ argROI \in {Value(r) : r \in Rois} \cup {Null({}), Undefined({})}
  /\ argSCALE \in {Value(ScaleMPx), Null(0), Undefined(0)}
  /\ argDEBUG = Undefined(FALSE)

Init ==
  /\ \/ InitSingle \/ InitSingleMissing \/ InitAffine \/ InitOuter \/ InitRounding
     \/ InitBoundary \/ InitCollection \/ InitRoundingCollection
  /\ InitLocals

\* ----------------------------------------------------------------- actions
\* singleTVDI, lines 425-434: handleInputs, print and return on an error.
SingleHandleInputs ==
  /\ UNCHANGED rounding
  /\ pc = "single"
  /\ LET error == handleInputs(curNDVI, curLST, argROI, argSCALE, FALSE)
     IN  IF error.kind = "string"
           THEN /\ printed' = Append(printed, error.text)
                /\ retval' = ReturnError(error.text)
                /\ pc' = "done"
           ELSE /\ pc' = "partition"
                /\ UNCHANGED <<printed, retval>>
  /\ UNCHANGED <<args, idx, locals, results>>

\* singleTVDI, lines 436-488: reproject, then the 100 intervals.
Partition ==
  /\ UNCHANGED rounding
  /\ pc = "partition"
  /\ intervals' = IF AllPresent
                    THEN LSTValuesOnNDVIIntervals(curNDVI.v, curLST.v, argROI.v)
                    ELSE << >>
  /\ edges' = << >>
  /\ pc' = "classify"
  /\ UNCHANGED <<args, idx, wetMask, dryMask, fit, lstMin, imageTVDI, results,
                 retval, printed>>

\* singleTVDI, lines 500-538: the edge masks of one retained interval.  The
\* list map evaluates its items independently, in no fixed order.
ClassifyInterval(j) ==
  /\ UNCHANGED rounding
  /\ pc = "classify"
  /\ j \in 1..Len(intervals)
  /\ j \notin DOMAIN edges
  /\ edges' = [k \in DOMAIN edges \cup {j} |->
                 IF k = j THEN EdgesOf(curLST.v, intervals[j], argROI.v) ELSE edges[k]]
  /\ UNCHANGED <<args, pc, idx, intervals, wetMask, dryMask, fit, lstMin, imageTVDI,
                 results, retval, printed>>

\* singleTVDI, lines 548-564: the two mosaics, over all the retained intervals.
Aggregate ==
  /\ UNCHANGED rounding
  /\ pc = "classify"
  /\ DOMAIN edges = 1..Len(intervals)
  /\ wetMask' = MosaicWet(edges)
  /\ dryMask' = MosaicDry(edges)
  /\ pc' = "fit"
  /\ UNCHANGED <<args, idx, intervals, edges, fit, lstMin, imageTVDI, results,
                 retval, printed>>

\* singleTVDI, lines 567-600: the dry-edge fit and the wet-edge mean.
Fit ==
  /\ UNCHANGED rounding
  /\ pc = "fit"
  /\ fit' = IF AllPresent THEN LinearFit(curNDVI.v, curLST.v, dryMask, argROI.v)
                          ELSE NoFit
  /\ lstMin' = IF AllPresent THEN WetEdgeLSTMean(curLST.v, wetMask, argROI.v)
                             ELSE NoData
  /\ pc' = "evaluate"
  /\ UNCHANGED <<args, idx, intervals, edges, wetMask, dryMask, imageTVDI, results,
                 retval, printed>>

\* singleTVDI, lines 603-620: the expression, clip and clamp.
Evaluate ==
  /\ pc = "evaluate"
  /\ IF AllPresent /\ MeetsRounding(curNDVI.v, curLST.v, argROI.v, fit, lstMin)
       THEN \E r \in RoundingSigns :
              /\ (\E m \in rounding : m.ndvi = curNDVI.v /\ m.lst = curLST.v) =>
                   r = RoundingOf(curNDVI.v, curLST.v)
              /\ rounding' = rounding \cup
                               {[ndvi |-> curNDVI.v, lst |-> curLST.v, sign |-> r]}
              /\ imageTVDI' = TVDIField(curNDVI.v, curLST.v, argROI.v, fit, lstMin, r)
       ELSE /\ rounding' = rounding
            /\ imageTVDI' = IF AllPresent
                              THEN TVDIField(curNDVI.v, curLST.v, argROI.v, fit, lstMin, 0)
                              ELSE EvalError
  /\ pc' = "return"
  /\ UNCHANGED <<args, idx, intervals, edges, wetMask, dryMask, fit, lstMin, results,
                 retval, printed>>

\* singleTVDI, lines 623-638, called directly: the debug print and the return.
SingleReturn ==
  /\ UNCHANGED rounding
  /\ pc = "return"
  /\ mode = "single"
  /\ printed' = IF curDEBUG.tag = "value" /\ curDEBUG.v
                  THEN Append(printed, <<"======== TVDI DEBUG ========">>)
                  ELSE printed
  /\ retval' = ReturnImage(imageTVDI)
  /\ pc' = "done"
  /\ UNCHANGED <<args, idx, locals, results>>

\* collectionTVDI, lines 662-679: handleInputs, print and return on an error.
CollectionHandleInputs ==
  /\ UNCHANGED rounding
  /\ pc = "collection"
  /\ LET error == handleInputs(argNDVI, argLST, argROI, argSCALE, TRUE)
     IN  IF error.kind = "throw"
           THEN /\ retval' = ReturnThrow
                /\ pc' = "done"
                /\ UNCHANGED printed
         ELSE IF error.kind = "string"
           THEN /\ printed' = Append(printed, error.text)
                /\ retval' = ReturnError(error.text)
                /\ pc' = "done"
         ELSE /\ pc' = IF Len(argNDVI.v) = 0 THEN "collect" ELSE "single"
              /\ UNCHANGED <<printed, retval>>
  /\ idx' = 0
  /\ results' = << >>
  /\ UNCHANGED <<args, locals>>

\* A tag counted from one.
SystemIndexFromOne(i) == Digits(i + 1)

\* ee.String(i): the index as text.
SystemIndex(i) == Digits(i)

\* collectionTVDI, lines 680-692: singleTVDI returned inside the map; the
\* image is tagged with its index and the map moves on.
MapReturn ==
  /\ UNCHANGED rounding
  /\ pc = "return"
  /\ mode = "collection"
  /\ results' = Append(results, [index |-> SystemIndex(idx), image |-> imageTVDI])
  /\ idx' = idx + 1
  /\ pc' = IF idx + 1 < Len(argNDVI.v) THEN "single" ELSE "collect"
  /\ intervals' = << >> /\ edges' = << >>
  /\ wetMask' = {} /\ dryMask' = {}
  /\ fit' = NoFit /\ lstMin' = NoData
  /\ imageTVDI' = NoImage
  /\ UNCHANGED <<args, retval, printed>>

\* collectionTVDI, lines 694-698.
CollectionReturn ==
  /\ UNCHANGED rounding
  /\ pc = "collect"
  /\ retval' = ImageCollection(results)
  /\ pc' = "done"
  /\ UNCHANGED <<args, idx, locals, results, printed>>

Next ==
  \/ SingleHandleInputs
  \/ Partition
  \/ \E j \in 1..NumIntervals : ClassifyInterval(j)
  \/ Aggregate
  \/ Fit
  \/ Evaluate
  \/ SingleReturn
  \/ CollectionHandleInputs
  \/ MapReturn
  \/ CollectionReturn

Spec == Init /\ [][Next]_vars

\* ------------------------------------------------------------------ claims
\* What singleTVDI computes from one pair, written as one function of the
\* pair and the ROI: the reference the runs are compared with.
PairEdges(ndvi, lst, roi) ==
  LET ivs == LSTValuesOnNDVIIntervals(ndvi, lst, roi)
  IN  [j \in 1..Len(ivs) |-> EdgesOf(lst, ivs[j], roi)]

PairImage(ndvi, lst, roi) ==
  LET es == PairEdges(ndvi, lst, roi)
  IN  TVDIField(ndvi, lst, roi,
                LinearFit(ndvi, lst, MosaicDry(es), roi),
                WetEdgeLSTMean(lst, MosaicWet(es), roi),
                RoundingOf(ndvi, lst))

\* One of NDVI, LST, ROI and the resolution is null or absent.
AnyMissing ==
  \/ argNDVI.tag # "value" \/ argLST.tag # "value"
  \/ argROI.tag # "value" \/ argSCALE.tag # "value"

EntryPc == IF mode = "single" THEN "single" ELSE "collection"

\* The pipeline of the current pair has produced its two global masks.
Aggregated ==
  \/ pc \in {"fit", "evaluate", "return"}
  \/ pc = "done" /\ mode = "single" /\ retval.kind = "image"

\* The pipeline of the current pair has evaluated the TVDI expression.
Evaluated ==
  \/ pc = "return"
  \/ pc = "done" /\ mode = "single" /\ retval.kind = "image"

\* The expression's denominator a + b*NDVI - LSTmin and its quotient at cell p.
DenominatorAt(p) ==
  RatSub(RatAdd(fit.offset.val, RatMul(fit.scale.val, RatOfInt(curNDVI.v[p]))),
         lstMin.val)
RawTVDIAt(p) ==
  Expression(curLST.v[p], curNDVI.v[p], fit.offset.val, fit.scale.val, lstMin.val,
             RoundingOf(curNDVI.v, curLST.v))

InUnitInterval(x) == RatLeq(Zero, x) /\ RatLeq(x, One)

\* C1: every pixel of the TVDI field singleTVDI returns is either absent
\* (outside the ROI) or holds a value within [0,1], whatever a, b and LST_min.
C1_TVDIWithinUnitInterval ==
  (pc = "done" /\ retval.kind = "image" /\ retval.image.status = "ok") =>
    /\ retval.image.valid \subseteq argROI.v
    /\ \A p \in retval.image.valid : InUnitInterval(retval.image.val[p])

\* C1 witness: a returned field with a cell whose quotient lies above 1 and a
\* cell whose quotient lies below 0.
C1_Witness ==
  /\ pc = "done" /\ mode = "single"
  /\ retval.kind = "image" /\ retval.image.status = "ok"
  /\ \E p \in argROI.v : RatLess(One, RawTVDIAt(p))
  /\ \E p \in argROI.v : RatLess(RawTVDIAt(p), Zero)

\* C2 (the claim as stated): when NDVI, LST, ROI or the resolution is absent
\* or null, the call leaves its entry only to return a reported error, with no
\* field and no computation begun.
C2_MissingInputIsReportedError ==
  AnyMissing =>
    \/ pc = EntryPc
    \/ /\ pc = "done"
       /\ retval.kind = "error"
       /\ printed = <<retval.text>>
       /\ imageTVDI = NoImage /\ results = << >>

\* The two collections of a collectionTVDI call differ in length.
SizeMismatch ==
  /\ mode = "collection"
  /\ argNDVI.tag = "value" /\ argLST.tag = "value"
  /\ Len(argNDVI.v) # Len(argLST.v)

\* C3: collections of different lengths make collectionTVDI return a reported
\* error instead of a sequence of fields, and no pair is processed.
C3_SizeMismatchIsReportedError ==
  SizeMismatch =>
    /\ pc \in {"collection", "done"}
    /\ results = << >> /\ imageTVDI = NoImage /\ intervals = << >>
    /\ pc = "done" =>
         /\ retval.kind = "error"
         /\ retval.items = << >>
         /\ printed = <<retval.text>>

\* C3 witness: the call has returned on collections of lengths 3 and 4.
C3_Witness ==
  /\ SizeMismatch /\ pc = "done"
  /\ Len(argNDVI.v) = 3 /\ Len(argLST.v) = 4
  /\ argROI.tag = "value" /\ argSCALE.tag = "value"
  /\ retval.kind = "error"

\* A global edge mask of the current pair is empty within the ROI.
EmptyEdgeMask ==
  /\ Aggregated /\ AllPresent
  /\ (wetMask \cap argROI.v = {} \/ dryMask \cap argROI.v = {})

\* C4 (the claim as stated): with an empty global dry-edge or wet-edge mask
\* the pipeline stops at the fit with a reported insufficient-data failure: it
\* never evaluates the TVDI expression and returns no image.
C4_EmptyEdgeMaskIsReportedFailure ==
  EmptyEdgeMask => pc = "fit"

\* LST is the same at every pixel of the scene singleTVDI is called on.
ConstantLST ==
  /\ mode = "single" /\ AllPresent
  /\ \A p, q \in Cells : argLST.v[p] = argLST.v[q]

\* C5 (the claim as stated): with a constant LST every interval is dropped,
\* both global masks are empty, and the pair is reported as an
\* insufficient-data failure instead of being evaluated.
C5_ConstantLSTIsReportedFailure ==
  ConstantLST =>
    /\ intervals = << >>
    /\ wetMask = {} /\ dryMask = {}
    /\ pc \notin {"evaluate", "return"}
    /\ pc = "done" => retval.kind = "error"

\* C5, the part the code keeps: every interval dropped, both masks empty.
C5_ConstantLSTDropsEveryInterval ==
  ConstantLST => intervals = << >> /\ wetMask = {} /\ dryMask = {}

\* A collectionTVDI call whose arguments are all given, equal in length.
CollectionCall ==
  /\ mode = "collection" /\ ~AnyMissing
  /\ Len(argNDVI.v) = Len(argLST.v)

\* C6 (the claim as stated): when collectionTVDI has returned, every pair
\* whose own pipeline yields a field has that same field in the result,
\* whatever happened to the other pairs.
C6_FailedPairLeavesSiblings ==
  (CollectionCall /\ pc = "done") =>
    \A i \in 1..Len(argNDVI.v) :
      LET alone == PairImage(argNDVI.v[i], argLST.v[i], argROI.v)
      IN  alone.status = "ok" =>
            /\ retval.kind = "collection"
            /\ Len(retval.items) >= i
            /\ retval.items[i].image = alone

\* A collectionTVDI call on two identical pairs.
TwoIdenticalPairs ==
  /\ CollectionCall
  /\ Len(argNDVI.v) = 2
  /\ argNDVI.v[1] = argNDVI.v[2] /\ argLST.v[1] = argLST.v[2]

\* C7: two identical pairs give exactly two results, tagged 0 and 1, equal to
\* each other and to what singleTVDI gives for that pair; when that is a field
\* the returned collection holds exactly these two fields.
C7_IdenticalPairsIdenticalFields ==
  (TwoIdenticalPairs /\ pc = "done") =>
    LET alone == PairImage(argNDVI.v[1], argLST.v[1], argROI.v)
    IN  /\ results = <<[index |-> <<0>>, image |-> alone],
                       [index |-> <<1>>, image |-> alone]>>
        /\ alone.status = "ok" =>
             retval.kind = "collection" /\ retval.items = results

\* C7 witness: two identical pairs returned as two fields that hold both a 0
\* and a 1.
C7_Witness ==
  /\ TwoIdenticalPairs /\ pc = "done"
  /\ retval.kind = "collection" /\ Len(retval.items) = 2
  /\ retval.items[1].image.status = "ok"
  /\ retval.items[1].image = retval.items[2].image
  /\ \E p, q \in retval.items[1].image.valid :
       /\ retval.items[1].image.val[p] = Zero
       /\ retval.items[1].image.val[q] = One

\* What a singleTVDI call returns and prints, as a function of NDVI, LST, ROI
\* and the resolution alone.
SingleReturnValue(N, L, R, S) ==
  LET error == handleInputs(N, L, R, S, FALSE)
      given == N.tag = "value" /\ L.tag = "value" /\ R.tag = "value" /\ S.tag = "value"
  IN  IF error.kind = "string"
        THEN [kind |-> "error", text |-> error.text, image |-> NoImage, items |-> << >>]
        ELSE [kind |-> "image", text |-> << >>, items |-> << >>,
              image |-> IF given THEN PairImage(N.v, L.v, R.v) ELSE EvalError]

DebugOn == argDEBUG.tag = "value" /\ argDEBUG.v

\* C8: the debug flag has no effect on what singleTVDI returns: the returned
\* field or error is a function of NDVI, LST, ROI and the resolution, and the
\* flag decides only whether the intermediate results are printed.
C8_DebugFlagLeavesReturnValue ==
  (mode = "single" /\ pc = "done") =>
    /\ retval = SingleReturnValue(argNDVI, argLST, argROI, argSCALE)
    /\ retval.kind = "error" => printed = <<retval.text>>
    /\ retval.kind = "image" =>
         printed = IF DebugOn THEN <<<<"======== TVDI DEBUG ========">>>> ELSE << >>

\* C8 witness: a call with the flag on has printed and returned a field.
C8_Witness ==
  /\ mode = "single" /\ pc = "done" /\ DebugOn
  /\ printed # << >>
  /\ retval.kind = "image" /\ retval.image.status = "ok"

\* C9 (the claim as stated): a pixel whose denominator a + b*NDVI - LST_min is
\* zero is masked in the evaluated field.
C9_ZeroDenominatorIsMasked ==
  (Evaluated /\ AllPresent /\ imageTVDI.status = "ok") =>
    \A p \in argROI.v : DenominatorAt(p).num = 0 => p \notin imageTVDI.valid

\* C9, the part the code keeps: a zero denominator does not stop the
\* evaluation of the other pixels of the ROI.
C9_ZeroDenominatorLeavesOthers ==
  (Evaluated /\ AllPresent /\ imageTVDI.status = "ok") =>
    \A p \in argROI.v :
      DenominatorAt(p).num # 0 =>
        p \in imageTVDI.valid /\ imageTVDI.val[p] = Clamp(RawTVDIAt(p))

\* singleTVDI is called on the scene LST = 300 + 10*NDVI.
AffineScene ==
  /\ mode = "single" /\ AllPresent
  /\ argLST.v = AffineLST(argNDVI.v)

\* The offset 300 and the slope 10 in the model's units.
AffineOffset == RatOfInt(300 * LstScale)
AffineSlope == Rat(10 * LstScale, 100 * IntervalWidth)

\* The fit of the affine scene is a = 300 and b = 10.
AffineFit ==
  fit.offset.def => fit.offset.val = AffineOffset /\ fit.scale.val = AffineSlope

\* C10 (the claim as stated): on the affine scene the fit is a = 300, b = 10
\* and the TVDI is 0 at every pixel of the ROI with a non-zero denominator.
C10_AffineSceneTVDIZero ==
  (AffineScene /\ Evaluated /\ imageTVDI.status = "ok") =>
    /\ AffineFit
    /\ \A p \in argROI.v : DenominatorAt(p).num # 0 => imageTVDI.val[p] = Zero

\* C10 (amended): on the affine scene the fit is a = 300 and b = 10, and the
\* TVDI is 1 at every pixel of the ROI with a non-zero denominator.
C10_AffineSceneTVDIOne ==
  (AffineScene /\ Evaluated /\ imageTVDI.status = "ok") =>
    /\ AffineFit
    /\ \A p \in argROI.v : DenominatorAt(p).num # 0 => imageTVDI.val[p] = One

\* C10 witness: an affine scene returned as a field that holds a 1.
C10_Witness ==
  /\ AffineScene /\ pc = "done"
  /\ retval.kind = "image" /\ retval.image.status = "ok"
  /\ fit.offset.val = AffineOffset /\ fit.scale.val = AffineSlope
  /\ \E p \in argROI.v : retval.image.val[p] = One

\* The masks of the 100 intervals on the current pair's NDVI, and the
\* intervals among them that hold cell p.
IntervalMasks ==
  [i \in 0..(NumIntervals - 1) |-> MaskIntervalNDVI(curNDVI.v, i)]
IntervalsOf(masks, p) == {i \in DOMAIN masks : p \in masks[i]}

\* The current pair has been partitioned.
Partitioned ==
  /\ pc \in {"classify", "fit", "evaluate", "return"}
  /\ AllPresent

\* C11: no pixel belongs to more than one of the 100 NDVI intervals, so no
\* pixel is in the edge masks of two different intervals and each pixel of a
\* mosaic comes from exactly one interval.
C11_IntervalsAreDisjoint ==
  Partitioned =>
    /\ LET masks == IntervalMasks
       IN  \A p \in Cells : Cardinality(IntervalsOf(masks, p)) <= 1
    /\ \A j, k \in DOMAIN intervals :
         j # k => intervals[j] \cap intervals[k] = {}
    /\ \A j, k \in DOMAIN edges :
         j # k => (edges[j].wet \cup edges[j].dry)
                    \cap (edges[k].wet \cup edges[k].dry) = {}
    /\ pc # "classify" =>
         /\ \A p \in wetMask : Cardinality({j \in DOMAIN edges : p \in edges[j].wet}) = 1
         /\ \A p \in dryMask : Cardinality({j \in DOMAIN edges : p \in edges[j].dry}) = 1

\* C11 witness: two retained intervals, each with a non-empty wet and a
\* non-empty dry mask, have been mosaicked.
C11_Witness ==
  /\ Partitioned /\ pc = "fit"
  /\ Len(intervals) = 2
  /\ edges[1].dry # {} /\ edges[2].dry # {}
  /\ edges[1].wet # {} /\ edges[2].wet # {}
  /\ dryMask = edges[1].dry \cup edges[2].dry

\* The entry the map makes for pair i (from 1): the TVDI of the i-th NDVI and
\* the i-th LST image, tagged with the position i - 1.
PairEntry(i) ==
  [index |-> Digits(i - 1),
   image |-> PairImage(argNDVI.v[i], argLST.v[i], argROI.v)]

\* C12 (the claim as stated): collectionTVDI returns an ordered sequence with
\* exactly one TVDI field per input pair, the field at position i computed from
\* the i-th NDVI and the i-th LST image and tagged with i, and no per-pair
\* computation prints diagnostics.
C12_CollectionOnePerPair ==
  (CollectionCall /\ pc = "done") =>
    /\ retval.kind = "collection"
    /\ Len(retval.items) = Len(argNDVI.v)
    /\ \A i \in 1..Len(argNDVI.v) :
         /\ retval.items[i] = PairEntry(i)
         /\ retval.items[i].image.status = "ok"
    /\ printed = << >>

\* C12, the part the code keeps: the mapped list holds one entry per pair, in
\* order and tagged with its position, nothing is printed, and the list is
\* returned as it is when the evaluation of every pair succeeds.
C12_MapIsOrderedAndTagged ==
  (CollectionCall /\ pc = "done") =>
    /\ Len(results) = Len(argNDVI.v)
    /\ \A i \in 1..Len(argNDVI.v) : results[i] = PairEntry(i)
    /\ printed = << >>
    /\ retval = ImageCollection(results)
    /\ (\A i \in 1..Len(results) : results[i].image.status = "ok") =>
         retval.items = results

\* The percentile value of the claim: the distinct LST values of interval M
\* within the ROI taken in numerically ascending order, the smallest whose
\* cumulative pixel fraction is at least pct percent.
NumericPercentile(lst, M, roi, pct) ==
  LET S == M \cap roi
      total == SumF(W, S)
      reach == {v \in {lst[p] : p \in S} :
                  100 * SumF(W, {p \in S : lst[p] <= v}) >= pct * total}
  IN  CHOOSE v \in reach : \A u \in reach : v <= u

\* The histogram keys of interval M are in the same order as text and as
\* numbers.
KeyOrderIsNumeric(lst, M, roi) ==
  \A p, q \in M \cap roi :
    KeyLess(KeyOf(lst[p]), KeyOf(lst[q])) <=> lst[p] < lst[q]

\* C13 (the claim as stated): for each retained interval the wet-edge mask is
\* the interval's pixels with LST below the 02-percentile value and the
\* dry-edge mask those with LST at or above the 98-percentile value, the
\* percentile values taken over the distinct LST values in numerically
\* ascending order.
C13_PercentilesNumericOrder ==
  Partitioned =>
    \A j \in DOMAIN edges :
      /\ edges[j].wet =
           {p \in intervals[j] :
              curLST.v[p] < NumericPercentile(curLST.v, intervals[j], argROI.v, WetPercent)}
      /\ edges[j].dry =
           {p \in intervals[j] :
              curLST.v[p] >= NumericPercentile(curLST.v, intervals[j], argROI.v, DryPercent)}

\* C13, the part the code keeps: the masks are those of the claim for every
\* interval whose keys sort as text in the order of their numbers.
C13_PercentilesWhenKeysSortNumerically ==
  Partitioned =>
    \A j \in DOMAIN edges :
      KeyOrderIsNumeric(curLST.v, intervals[j], argROI.v) =>
        /\ edges[j].wet =
             {p \in intervals[j] :
                curLST.v[p] < NumericPercentile(curLST.v, intervals[j], argROI.v, WetPercent)}
        /\ edges[j].dry =
             {p \in intervals[j] :
                curLST.v[p] >= NumericPercentile(curLST.v, intervals[j], argROI.v, DryPercent)}

\* The NDVI of cell p is the double the image holds.  It lies on an interval
\* boundary when it is equal to a bound k*0.01, k in 0..100; it lies outside
\* (0,1) when it is not greater than 0 or not less than 1.
OnBoundary(p) == \E k \in 0..NumIntervals : EqBound(curNDVI.v[p], k)
OutsideRange(p) ==
  ~GtBound(curNDVI.v[p], 0) \/ ~LtBound(curNDVI.v[p], NumIntervals)

\* Cell p is in a retained interval field or in an edge mask.
InSomeMask(p) ==
  \/ \E j \in DOMAIN intervals : p \in intervals[j]
  \/ \E j \in DOMAIN edges : p \in edges[j].wet \cup edges[j].dry
  \/ p \in wetMask \cup dryMask

\* C14: a pixel is in interval i exactly when its NDVI is strictly greater
\* than i*0.01 and strictly less than (i+1)*0.01; a pixel whose NDVI is equal
\* to a bound k*0.01 or lies outside (0,1) is in no interval and in no
\* wet-edge or dry-edge mask.  The assignment to the intervals is a function
\* of the NDVI image alone and is compared as the partition hands over; the
\* masks are compared in every later state of the pair.
C14_StrictIntervalBounds ==
  Partitioned =>
    /\ (pc = "classify" /\ edges = << >>) =>
         LET masks == IntervalMasks IN
         \A p \in Cells :
           /\ IntervalsOf(masks, p) =
                {i \in 0..(NumIntervals - 1) :
                   /\ GtBound(curNDVI.v[p], i)
                   /\ LtBound(curNDVI.v[p], i + 1)}
           /\ (OnBoundary(p) \/ OutsideRange(p)) => IntervalsOf(masks, p) = {}
           /\ \A j \in DOMAIN intervals :
                p \in intervals[j] => IntervalsOf(masks, p) # {}
    /\ \A p \in Cells :
         InSomeMask(p) =>
           /\ ~OnBoundary(p) /\ ~OutsideRange(p)
           /\ \E i \in 0..(NumIntervals - 1) :
                /\ GtBound(curNDVI.v[p], i)
                /\ LtBound(curNDVI.v[p], i + 1)

\* C14 witness: a scene with a pixel equal to the bound 0.03, which is in no
\* mask, and pixels inside the intervals on either side of it has been
\* mosaicked into a non-empty dry mask.
C14_Witness ==
  /\ Partitioned /\ pc = "fit"
  /\ \E p \in Cells :
       /\ curNDVI.v[p] = 3 * IntervalWidth /\ OnBoundary(p) /\ ~InSomeMask(p)
  /\ \E p \in Cells : curNDVI.v[p] = 3 * IntervalWidth + 1 /\ InSomeMask(p)
  /\ dryMask # {}

\* C14 witness of the range: a scene with a pixel at NDVI 1 and a pixel below
\* 0, both in no mask, has been mosaicked into a non-empty dry mask.
C14_WitnessOutside ==
  /\ Partitioned /\ pc = "fit"
  /\ \E p \in Cells : EqBound(curNDVI.v[p], NumIntervals) /\ ~InSomeMask(p)
  /\ \E p \in Cells : curNDVI.v[p] < 0 /\ ~InSomeMask(p)
  /\ dryMask # {}

\* The distinct LST values of the current pair on the cells of M in the ROI.
DistinctLST(M) == {curLST.v[p] : p \in M \cap argROI.v}

\* Interval i of the current pair is among the retained interval fields.
Retained(i) ==
  \E j \in DOMAIN intervals : intervals[j] = MaskIntervalNDVI(curNDVI.v, i)

\* C15: an interval's LST field is passed on exactly when it has more than 1
\* distinct LST value within the ROI; the others are dropped with no error, so
\* at most 100 fields are retained and each has at least 2 distinct values.
C15_RetainedIffTwoDistinct ==
  Partitioned =>
    /\ Len(intervals) <= NumIntervals
    /\ \A j \in DOMAIN intervals : Cardinality(DistinctLST(intervals[j])) >= 2
    /\ \A j \in DOMAIN edges : j \in DOMAIN intervals
    /\ \A i \in 0..(NumIntervals - 1) :
         Retained(i) <=>
           Cardinality(DistinctLST(MaskIntervalNDVI(curNDVI.v, i))) > 1
    /\ printed = << >> /\ retval = NoReturn

\* C15 witness: one interval is retained and classified while another, which
\* holds two LST values of which only one lies within the ROI, was dropped.
C15_Witness ==
  /\ Partitioned /\ pc = "fit"
  /\ Len(intervals) = 1 /\ DOMAIN edges = {1}
  /\ \E i \in 0..(NumIntervals - 1) :
       LET M == MaskIntervalNDVI(curNDVI.v, i)
       IN  /\ Cardinality({curLST.v[p] : p \in M}) = 2
           /\ Cardinality(DistinctLST(M)) = 1
           /\ ~Retained(i)

\* One step of a pair's pipeline keeps the order Partition, Classify,
\* Aggregate, Fit, Evaluate: every stage hands over to the next one only, an
\* interval is classified once, the two global masks are made when every
\* retained interval has been classified, and no stage's result is changed by a
\* later stage ("return" is the end of the pair, where the map resets the
\* locals for the next pair).
StageStep ==
  /\ pc = "single" =>
       pc' = "partition" \/ (pc' = "done" /\ retval'.kind = "error")
  /\ pc = "partition" => pc' = "classify" /\ edges' = << >>
  /\ pc = "classify" =>
       \/ /\ pc' = "classify"
          /\ \E j \in (1..Len(intervals)) \ DOMAIN edges :
               DOMAIN edges' = DOMAIN edges \cup {j}
          /\ \A k \in DOMAIN edges : edges'[k] = edges[k]
       \/ /\ pc' = "fit"
          /\ DOMAIN edges = 1..Len(intervals)
          /\ edges' = edges
  /\ pc = "fit" => pc' = "evaluate"
  /\ pc = "evaluate" => pc' = "return"
  /\ pc = "return" => pc' \in {"done", "single", "collect"}
  /\ intervals' # intervals => pc \in {"partition", "return"}
  /\ (wetMask' # wetMask \/ dryMask' # dryMask) =>
       (pc = "classify" /\ pc' = "fit") \/ pc = "return"
  /\ (fit' # fit \/ lstMin' # lstMin) => pc \in {"fit", "return"}
  /\ imageTVDI' # imageTVDI => pc \in {"evaluate", "return"}

\* A pair ends with a TVDI field, or with a failure at input validation or at
\* the fit: a fit without a result does not go on to the evaluation, and a
\* pair that reaches its end holds a field.
EndsWithFieldOrFailure ==
  /\ (pc = "fit" /\ ~(fit'.offset.def /\ fit'.scale.def /\ lstMin'.def)) =>
       pc' # "evaluate"
  /\ (pc = "return" /\ pc' # "return") => imageTVDI.status = "ok"

\* C16 (the claim as stated): the stages of a pair run as the strict pipeline
\* Partition, Classify, Aggregate, Fit, Evaluate with no retry and no backward
\* transition, and a pair ends either with a TVDI field or with a failure at
\* the fit or at input validation.
C16_StrictPipeline == [][StageStep /\ EndsWithFieldOrFailure]_vars

\* C16, the part the code keeps: the order of the stages.
C16_StagesRunInOrder == [][StageStep]_vars

\* C17 (the claim as stated): in every retained interval the classifier's
\* 02-percentile value is not greater than its 98-percentile value and no pixel
\* is in both the wet-edge and the dry-edge mask; no pixel is in both global
\* masks.
C17_WetAndDryExclusive ==
  Partitioned =>
    /\ \A j \in DOMAIN edges :
         /\ LSTValueGTE(curLST.v, intervals[j], argROI.v, WetPercent)
              <= LSTValueGTE(curLST.v, intervals[j], argROI.v, DryPercent)
         /\ edges[j].wet \cap edges[j].dry = {}
    /\ wetMask \cap dryMask = {}

\* C17, the part the code keeps: the masks of an interval are exclusive when
\* its keys sort as text in the order of their numbers.
C17_ExclusiveWhenKeysSortNumerically ==
  Partitioned =>
    \A j \in DOMAIN edges :
      KeyOrderIsNumeric(curLST.v, intervals[j], argROI.v) =>
        /\ LSTValueGTE(curLST.v, intervals[j], argROI.v, WetPercent)
             <= LSTValueGTE(curLST.v, intervals[j], argROI.v, DryPercent)
        /\ edges[j].wet \cap edges[j].dry = {}

\* The pixels of interval M within the ROI.
PixelCount(M) == SumF(W, M \cap argROI.v)

\* The smallest LST of interval M within the ROI.
MinLST(M) ==
  CHOOSE v \in DistinctLST(M) : \A u \in DistinctLST(M) : v <= u

\* C18 (the claim as stated): a retained interval with at most 50 pixels in
\* the ROI has its minimum LST as 02-percentile value and no wet-edge pixel
\* in the ROI; when every retained interval has at most 50 pixels the global
\* wet-edge mask has no pixel in the ROI.
C18_SmallIntervalHasNoWetEdge ==
  Partitioned =>
    /\ \A j \in DOMAIN edges :
         PixelCount(intervals[j]) <= 50 =>
           /\ LSTValueGTE(curLST.v, intervals[j], argROI.v, WetPercent)
                = MinLST(intervals[j])
           /\ edges[j].wet \cap argROI.v = {}
    /\ (\A j \in DOMAIN intervals : PixelCount(intervals[j]) <= 50) =>
         wetMask \cap argROI.v = {}

\* C18, the part the code keeps: an interval of at most 50 pixels takes the
\* first key of its histogram as 02-percentile value.
C18_SmallIntervalTakesFirstKey ==
  Partitioned =>
    \A j \in DOMAIN edges :
      PixelCount(intervals[j]) <= 50 =>
        LET keys == SortedKeys(HistogramKeys(curLST.v, intervals[j], argROI.v))
        IN  /\ IndexGTE(curLST.v, intervals[j], argROI.v, keys, WetPercent) = 1
            /\ KeyOrderIsNumeric(curLST.v, intervals[j], argROI.v) =>
                 edges[j].wet \cap argROI.v = {}

\* The call's own handleInputs has run to its return.
InputsHandled == pc # EntryPc /\ retval.kind # "exception"

\* A validation rule is violated: an argument is null, or the two collections
\* differ in size.
RuleViolated ==
  \/ argNDVI.tag = "null" \/ argLST.tag = "null"
  \/ argROI.tag = "null" \/ argSCALE.tag = "null"
  \/ SizeMismatch

\* One message for every null argument of the call.
ExpectedMessages ==
  (IF argNDVI.tag = "null"
     THEN {IF mode = "collection" THEN "ERROR: imageCollectionNDVI must not be null!"
                                  ELSE "ERROR: imageNDVI must not be null!"}
     ELSE {})
  \cup (IF argLST.tag = "null"
          THEN {IF mode = "collection" THEN "ERROR: imageCollectionLST must not be null!"
                                       ELSE "ERROR: imageLST must not be null!"}
          ELSE {})
  \cup (IF argROI.tag = "null" THEN {"ERROR: ROI must not be null!"} ELSE {})
  \cup (IF argSCALE.tag = "null" THEN {"ERROR: SCALE_M_PX must not be null!"} ELSE {})

\* handleInputs returned an error text, which the call printed and returned.
ErrorReturned == pc = "done" /\ retval.kind = "error"

\* C19 (the claim as stated): handleInputs returns false exactly when no
\* validation rule is violated, and otherwise an error text that holds one
\* message for every null argument, also when the collection sizes differ.
C19_ErrorNamesEveryNullArgument ==
  InputsHandled =>
    /\ ErrorReturned <=> RuleViolated
    /\ ErrorReturned =>
         \A m \in ExpectedMessages : \E k \in DOMAIN retval.text : retval.text[k] = m

\* C19, the part the code keeps: false exactly when no rule is violated, and
\* every null argument named when the collection sizes do not differ.
C19_ErrorNamesNullsUnlessSizesDiffer ==
  InputsHandled =>
    /\ ErrorReturned <=> RuleViolated
    /\ (ErrorReturned /\ ~SizeMismatch) =>
         /\ \A m \in ExpectedMessages : \E k \in DOMAIN retval.text : retval.text[k] = m
         /\ Len(retval.text) = Cardinality(ExpectedMessages)
=============================================================================
